---- MODULE Spec2Model ----
(***************************************************************************)
(* Hierarchical switch topology (topology/tree plugin).                    *)
(*                                                                         *)
(* The switch forest is ctx->switch_table / switch_count / switch_levels.  *)
(* Indices are those of the C code (0-based); a bitmap is the set of its   *)
(* set bits; a hostlist is the sequence of its host names.                 *)
(***************************************************************************)
EXTENDS Integers, Sequences, FiniteSets, TLC

VARIABLES
    switch_table,   \* ctx->switch_table: [0..switch_count-1 -> switch record]
    switch_count,   \* ctx->switch_count
    switch_levels,  \* ctx->switch_levels
    call,           \* the call in progress / just completed, with its results
    pc,             \* per thread: position inside topology_p_split_hostlist
    init_lock,      \* static init_lock: 0 = free, else the holding thread
    builds,         \* history: number of completed topology_g_build_config runs
    in_ctld,        \* running_in_slurmctld()
    conf_nodes,     \* number of node lines in the configuration files
    node_record_count, \* node_record_count
    aborted         \* the process ended in fatal_abort() / fatal()

vars == <<switch_table, switch_count, switch_levels, call, pc, init_lock,
          builds, in_ctld, conf_nodes, node_record_count, aborted>>

fvars == <<switch_table, switch_count, switch_levels>>
cvars == <<pc, init_lock, builds, in_ctld, conf_nodes, node_record_count, aborted>>

-----------------------------------------------------------------------------
(* Bounds of the model *)

NumNodes == 4          \* nodes in the node directory: indices 0..NumNodes-1
MaxTreeWidth == 3      \* tree_width ranges over 2..MaxTreeWidth
MaxPathLen == 3        \* segments of a unit path
NumNewNames == 1       \* switch names that are in no configured forest
NumThreads == 2        \* threads calling topology_p_split_hostlist
MaxBuilds == 2         \* no new call starts once the forest was built this often

-----------------------------------------------------------------------------
(* Program constants *)

SWITCH_NO_PARENT == 65535
SLURM_SUCCESS == 0
SLURM_ERROR == -1

-----------------------------------------------------------------------------
(* Node directory and bit strings *)

Nodes == 0 .. (NumNodes - 1)

Max(a, b) == IF a > b THEN a ELSE b

SetMin(S) == CHOOSE x \in S : \A y \in S : x <= y

SetMax(S) == CHOOSE x \in S : \A y \in S : x >= y

\* node names: node index n is named <<"n", n>>
NodeName(n) == <<"n", n>>

\* find_node_record(): the index of the node of that name, -1 for NULL
find_node_record(name) ==
    IF name[1] = "n" /\ name[2] \in Nodes THEN name[2] ELSE -1

\* iterate the set bits in ascending order
RECURSIVE BitsAscending(_)
BitsAscending(bitmap) ==
    IF bitmap = {} THEN << >>
    ELSE LET b == SetMin(bitmap) IN <<b>> \o BitsAscending(bitmap \ {b})

\* bitmap2node_name(): the rendered list of node names, ascending
bitmap2node_name(bitmap) ==
    LET s == BitsAscending(bitmap) IN [i \in 1 .. Len(s) |-> NodeName(s[i])]

\* bitmap2hostlist(): the hostlist of the set bits, ascending
bitmap2hostlist(bitmap) == bitmap2node_name(bitmap)

\* the node indices a hostlist names
HostSet(hl) == {find_node_record(hl[i]) : i \in 1 .. Len(hl)}

-----------------------------------------------------------------------------
(* The switch forest as the validator builds it *)

Ctx(tbl, cnt, lvls) ==
    [switch_table |-> tbl, switch_count |-> cnt, switch_levels |-> lvls]

EmptyCtx == Ctx(<< >>, 0, 0)

CurCtx == Ctx(switch_table, switch_count, switch_levels)

\* one configured switch: name, level, parent and direct children
Sw(name, level, parent, children) ==
    [name |-> name, level |-> level, parent |-> parent, switch_index |-> children]

\* scenario 2: two leaves under one spine
Layout2 ==
    (0 :> Sw("leaf0", 0, 2, << >>)) @@ (1 :> Sw("leaf1", 0, 2, << >>)) @@
    (2 :> Sw("spine0", 1, SWITCH_NO_PARENT, <<0, 1>>))

\* three levels, a leaf directly under the core, parents listed after children
Layout3 ==
    (0 :> Sw("leafA", 0, 1, << >>)) @@
    (1 :> Sw("core", 2, SWITCH_NO_PARENT, <<2, 0>>)) @@
    (2 :> Sw("agg", 1, 1, <<3>>)) @@ (3 :> Sw("leafB", 0, 2, << >>))

\* three levels, children declared against the table order
Layout5 ==
    (0 :> Sw("core", 2, SWITCH_NO_PARENT, <<1, 4>>)) @@
    (1 :> Sw("agg", 1, 0, <<3, 2>>)) @@ (2 :> Sw("leafA", 0, 1, << >>)) @@
    (3 :> Sw("leafB", 0, 1, << >>)) @@ (4 :> Sw("leafC", 0, 0, << >>))

\* two trees: a lone leaf and a spine with two leaves
LayoutTwoTrees ==
    (0 :> Sw("leafX", 0, SWITCH_NO_PARENT, << >>)) @@
    (1 :> Sw("spine", 1, SWITCH_NO_PARENT, <<3, 2>>)) @@
    (2 :> Sw("leafY", 0, 1, << >>)) @@ (3 :> Sw("leafZ", 0, 1, << >>))

\* two trees of two levels each
LayoutTwoSpines ==
    (0 :> Sw("spineA", 1, SWITCH_NO_PARENT, <<2, 3>>)) @@
    (1 :> Sw("spineB", 1, SWITCH_NO_PARENT, <<5, 4>>)) @@
    (2 :> Sw("leafA0", 0, 0, << >>)) @@ (3 :> Sw("leafA1", 0, 0, << >>)) @@
    (4 :> Sw("leafB0", 0, 1, << >>)) @@ (5 :> Sw("leafB1", 0, 1, << >>))

LayoutLeaves(layout) == {s \in DOMAIN layout : layout[s].level = 0}

\* nodes reachable through switch s when node n is attached to leaf place[n]
RECURSIVE LayoutNodes(_, _, _)
LayoutNodes(layout, place, s) ==
    IF layout[s].level = 0 THEN {n \in Nodes : place[n] = s}
    ELSE UNION {LayoutNodes(layout, place, layout[s].switch_index[i]) :
                    i \in 1 .. Len(layout[s].switch_index)}

\* all transitive children of s, each child followed by its own descendants
RECURSIVE LayoutDesc(_, _, _)
LayoutDesc(layout, s, i) ==
    IF i > Len(layout[s].switch_index) THEN << >>
    ELSE LET c == layout[s].switch_index[i]
         IN <<c>> \o LayoutDesc(layout, c, 1) \o LayoutDesc(layout, s, i + 1)

\* switch_record_validate(): the forest for a layout and a node placement
switch_record_validate(layout, place) ==
    Ctx([s \in DOMAIN layout |->
            [name |-> layout[s].name,
             level |-> layout[s].level,
             parent |-> layout[s].parent,
             switch_index |-> layout[s].switch_index,
             switch_desc_index |-> LayoutDesc(layout, s, 1),
             node_bitmap |-> LayoutNodes(layout, place, s),
             nodes |-> bitmap2node_name(LayoutNodes(layout, place, s))]],
        Cardinality(DOMAIN layout),
        SetMax({layout[s].level : s \in DOMAIN layout}))

\* a placement: each node on one leaf of the layout, or on none (-1)
Placements(layout) == [Nodes -> LayoutLeaves(layout) \cup {-1}]

\* scenario 2's placement cut to the node directory: n0,n1 on the first leaf
\* of the table, the others on the last
SplitPlacement(layout) ==
    [n \in Nodes |-> IF n <= 1 THEN SetMin(LayoutLeaves(layout))
                     ELSE SetMax(LayoutLeaves(layout))]

-----------------------------------------------------------------------------
(* Switch table helpers that live outside topology_tree.c *)

\* switch_record_get_switch_inx(): the index of the switch of that name, or -1
switch_record_get_switch_inx(name, ctx) ==
    LET hit == {i \in 0 .. (ctx.switch_count - 1) : ctx.switch_table[i].name = name}
    IN IF hit = {} THEN -1 ELSE SetMin(hit)

\* s and every switch reached from it by parent links
RECURSIVE Ancestors(_, _)
Ancestors(tbl, s) ==
    IF s = SWITCH_NO_PARENT THEN {} ELSE {s} \cup Ancestors(tbl, tbl[s].parent)

\* switch_record_add_switch(): append a new, empty leaf switch as the last child
\* of `parent`, with a fresh index; a leaf cannot take a child switch (-1)
switch_record_add_switch(ctx, name, parent) ==
    IF ctx.switch_table[parent].level = 0 THEN [ctx |-> ctx, inx |-> -1]
    ELSE
    LET inx == ctx.switch_count
        tbl == ctx.switch_table
        anc == Ancestors(tbl, parent)
        new == [name |-> name, level |-> 0, parent |-> parent,
                switch_index |-> << >>, switch_desc_index |-> << >>,
                node_bitmap |-> {}, nodes |-> << >>]
        old(i) ==
            [tbl[i] EXCEPT
               !.switch_index = IF i = parent THEN Append(@, inx) ELSE @,
               !.switch_desc_index = IF i \in anc THEN Append(@, inx) ELSE @]
    IN [ctx |-> Ctx([i \in 0 .. inx |-> IF i = inx THEN new ELSE old(i)],
                    inx + 1, ctx.switch_levels),
        inx |-> inx]

-----------------------------------------------------------------------------
(* topology_p_add_rm_node *)

\* the while (tok) loop: resolve or create each switch the unit path names
RECURSIVE PathLoop(_, _, _)
PathLoop(st, unit, k) ==
    IF k > Len(unit) THEN st
    ELSE
    LET found == switch_record_get_switch_inx(unit[k], st.ctx)
    IN IF found < 0 /\ st.add_inx < 0
       THEN [st EXCEPT !.rc = SLURM_ERROR]
       ELSE IF found >= 0
       THEN PathLoop([st EXCEPT !.add_inx = found], unit, k + 1)
       ELSE LET made == switch_record_add_switch(st.ctx, unit[k], st.add_inx)
            IN IF made.inx < 0
               THEN [st EXCEPT !.rc = SLURM_ERROR]
               ELSE PathLoop([st EXCEPT !.ctx = made.ctx, !.add_inx = made.inx],
                             unit, k + 1)

\* history: every segment of the unit path names a switch of the forest, so
\* the path loop creates none
PathResolvesExisting(ctx, unit) ==
    \A k \in 1 .. Len(unit) : switch_record_get_switch_inx(unit[k], ctx) >= 0

\* the walk from a leaf to its root without the added[] stop
RECURSIVE WalkUpNoAdded(_, _, _, _, _)
WalkUpNoAdded(st, sw, node, add, in_switch) ==
    IF sw = SWITCH_NO_PARENT THEN st
    ELSE
    LET bits == IF add /\ ~in_switch THEN st.tbl[sw].node_bitmap \cup {node}
                ELSE IF ~add /\ in_switch THEN st.tbl[sw].node_bitmap \ {node}
                ELSE st.tbl[sw].node_bitmap
        tbl2 == [st.tbl EXCEPT ![sw].node_bitmap = bits,
                               ![sw].nodes = bitmap2node_name(bits)]
    IN WalkUpNoAdded([tbl |-> tbl2, added |-> st.added], tbl2[sw].parent, node,
                     add, in_switch)

\* the walk whose removal clears the leaf alone and stops there
RECURSIVE WalkUpRemoveStops(_, _, _, _, _)
WalkUpRemoveStops(st, sw, node, add, in_switch) ==
    IF sw = SWITCH_NO_PARENT \/ sw \in st.added THEN st
    ELSE IF ~add
    THEN [tbl |-> [st.tbl EXCEPT
                     ![sw].node_bitmap = @ \ {node},
                     ![sw].nodes = bitmap2node_name(st.tbl[sw].node_bitmap \ {node})],
          added |-> st.added]
    ELSE WalkUpRemoveStops(
             [tbl |-> [st.tbl EXCEPT
                         ![sw].node_bitmap = @ \cup {node},
                         ![sw].nodes = bitmap2node_name(st.tbl[sw].node_bitmap \cup {node})],
              added |-> st.added \cup {sw}],
             st.tbl[sw].parent, node, add, in_switch)

\* the while (sw != SWITCH_NO_PARENT) loop: set or clear the node's bit on the
\* way up, regenerating nodes; stop at a switch this call already added to
RECURSIVE WalkUp(_, _, _, _, _)
WalkUp(st, sw, node, add, in_switch) ==
    IF sw = SWITCH_NO_PARENT \/ sw \in st.added THEN st
    ELSE
    LET bits == IF add /\ ~in_switch THEN st.tbl[sw].node_bitmap \cup {node}
                ELSE IF ~add /\ in_switch THEN st.tbl[sw].node_bitmap \ {node}
                ELSE st.tbl[sw].node_bitmap
        tbl2 == [st.tbl EXCEPT ![sw].node_bitmap = bits,
                               ![sw].nodes = bitmap2node_name(bits)]
        added2 == IF add /\ ~in_switch THEN st.added \cup {sw} ELSE st.added
    IN WalkUp([tbl |-> tbl2, added |-> added2], tbl2[sw].parent, node, add,
              in_switch)

\* the leaf loop that forgets to take the node out of the leaves it is leaving
RECURSIVE LeafLoopAddOnly(_, _, _, _, _)
LeafLoopAddOnly(st, i, cnt, node, add_inx) ==
    IF i >= cnt THEN st
    ELSE IF st.tbl[i].level # 0 \/ add_inx # i \/ node \in st.tbl[i].node_bitmap
    THEN LeafLoopAddOnly(st, i + 1, cnt, node, add_inx)
    ELSE LeafLoopAddOnly(WalkUp(st, i, node, TRUE, FALSE), i + 1, cnt, node, add_inx)

\* the for loop over the switch table: every leaf whose membership must change
RECURSIVE LeafLoop(_, _, _, _, _)
LeafLoop(st, i, cnt, node, add_inx) ==
    IF i >= cnt THEN st
    ELSE IF st.tbl[i].level # 0 THEN LeafLoop(st, i + 1, cnt, node, add_inx)
    ELSE
    LET in_switch == node \in st.tbl[i].node_bitmap
        add == (add_inx = i)
    IN IF (~in_switch /\ ~add) \/ (in_switch /\ add)
       THEN LeafLoop(st, i + 1, cnt, node, add_inx)
       ELSE LeafLoop(WalkUp(st, i, node, add, in_switch), i + 1, cnt, node, add_inx)

\* topology_p_add_rm_node(node_ptr, unit, tctx): unit is the sequence of the
\* path's segments, << >> for a NULL unit.  Result: rc, the forest it leaves,
\* and the leaf resolved (add_inx)
topology_p_add_rm_node(ctx, node, unit) ==
    LET walked == PathLoop([ctx |-> ctx, add_inx |-> -1, rc |-> SLURM_SUCCESS],
                           unit, 1)
        c == walked.ctx
    IN IF walked.rc # SLURM_SUCCESS
       THEN [rc |-> SLURM_ERROR, ctx |-> c, add_inx |-> walked.add_inx]
       ELSE IF walked.add_inx >= 0 /\ c.switch_table[walked.add_inx].level # 0
       THEN [rc |-> SLURM_ERROR, ctx |-> c, add_inx |-> walked.add_inx]
       ELSE LET done == LeafLoop([tbl |-> c.switch_table, added |-> {}], 0,
                                 c.switch_count, node, walked.add_inx)
            IN [rc |-> SLURM_SUCCESS,
                ctx |-> Ctx(done.tbl, c.switch_count, c.switch_levels),
                add_inx |-> walked.add_inx]

-----------------------------------------------------------------------------
(* The controller's node events: a single writer calling the mutator *)

Idle == [op |-> "idle"]

NewNamePool == <<"newsw1", "newsw2", "newsw3">>

NewNames == {NewNamePool[i] : i \in 1 .. NumNewNames}

\* the names a unit path may hold: the switches of the forest and the new names
SwitchNames ==
    {switch_table[s].name : s \in 0 .. (switch_count - 1)} \cup NewNames

UnitPaths == UNION {[1 .. n -> SwitchNames] : n \in 0 .. MaxPathLen}

\* the nodes the controller has events for: the first and the last node of
\* the directory, which the configuration attaches to different leaves
EventNodes == {0, NumNodes - 1}

CallsQuiet == pc = [t \in 1 .. NumThreads |-> "idle"] /\ ~aborted

\* the controller calls topology_p_add_rm_node(node, unit); the record of
\* the call keeps the forest before it
AddRmNode(node, unit) ==
    /\ call = Idle
    /\ CallsQuiet
    /\ \E r \in {topology_p_add_rm_node(CurCtx, node, unit)} :
          /\ switch_table' = r.ctx.switch_table
          /\ switch_count' = r.ctx.switch_count
          /\ switch_levels' = r.ctx.switch_levels
          /\ call' = [op |-> "add_rm", node |-> node, adding |-> Len(unit) > 0,
                      existing |-> PathResolvesExisting(CurCtx, unit),
                      rc |-> r.rc, add_inx |-> r.add_inx, before |-> CurCtx,
                      start |-> EmptyCtx, undoes |-> FALSE]
    /\ UNCHANGED cvars

\* right after a successful add the controller removes the same node again:
\* topology_p_add_rm_node(node, NULL); the record keeps the forest before
\* the add as start
RemoveAdded ==
    /\ call.op = "add_rm"
    /\ call.adding
    /\ call.rc = SLURM_SUCCESS
    /\ CallsQuiet
    /\ \E r \in {topology_p_add_rm_node(CurCtx, call.node, << >>)} :
          /\ switch_table' = r.ctx.switch_table
          /\ switch_count' = r.ctx.switch_count
          /\ switch_levels' = r.ctx.switch_levels
          /\ call' = [op |-> "add_rm", node |-> call.node, adding |-> FALSE,
                      existing |-> call.existing,
                      rc |-> r.rc, add_inx |-> r.add_inx, before |-> CurCtx,
                      start |-> call.before, undoes |-> TRUE]
    /\ UNCHANGED cvars

\* the caller takes the result
Return ==
    /\ call # Idle
    /\ call' = Idle
    /\ UNCHANGED <<fvars, cvars>>

QuietThreads ==
    /\ pc = [t \in 1 .. NumThreads |-> "idle"]
    /\ init_lock = 0
    /\ builds = 0
    /\ in_ctld = TRUE
    /\ conf_nodes = NumNodes
    /\ node_record_count = NumNodes
    /\ aborted = FALSE

SetForest(ctx) ==
    /\ switch_table = ctx.switch_table
    /\ switch_count = ctx.switch_count
    /\ switch_levels = ctx.switch_levels

\* the controller after the validator built the configured forest
InitMutator ==
    /\ \E layout \in {Layout2, Layout3} :
           SetForest(switch_record_validate(layout, SplitPlacement(layout)))
    /\ call = Idle
    /\ QuietThreads

NextMutator ==
    \/ \E node \in EventNodes, unit \in UnitPaths : AddRmNode(node, unit)
    \/ RemoveAdded
    \/ Return

SpecMutator == InitMutator /\ [][NextMutator]_vars

-----------------------------------------------------------------------------
(* topology_p_whole_topo *)

\* the loop that ORs in every overlapping switch, leaf or not
RECURSIVE WholeTopoLoopAnyLevel(_, _, _)
WholeTopoLoopAnyLevel(ctx, node_mask, i) ==
    IF i >= ctx.switch_count THEN node_mask
    ELSE IF ctx.switch_table[i].node_bitmap \cap node_mask # {}
    THEN WholeTopoLoopAnyLevel(ctx, node_mask \cup ctx.switch_table[i].node_bitmap, i + 1)
    ELSE WholeTopoLoopAnyLevel(ctx, node_mask, i + 1)

\* for (i = 0; i < switch_count; i++): OR each overlapping leaf into node_mask
RECURSIVE WholeTopoLoop(_, _, _)
WholeTopoLoop(ctx, node_mask, i) ==
    IF i >= ctx.switch_count THEN node_mask
    ELSE IF ctx.switch_table[i].level # 0 THEN WholeTopoLoop(ctx, node_mask, i + 1)
    ELSE IF ctx.switch_table[i].node_bitmap \cap node_mask # {}
    THEN WholeTopoLoop(ctx, node_mask \cup ctx.switch_table[i].node_bitmap, i + 1)
    ELSE WholeTopoLoop(ctx, node_mask, i + 1)

topology_p_whole_topo(ctx, node_mask) == WholeTopoLoop(ctx, node_mask, 0)

-----------------------------------------------------------------------------
(* topology_p_get_node_addr *)

\* the switches of one level whose node_bitmap holds the node, in table order
RECURSIVE LevelHostlist(_, _, _, _)
LevelHostlist(ctx, level, inx, i) ==
    IF i >= ctx.switch_count THEN << >>
    ELSE IF ctx.switch_table[i].level = level /\ inx \in ctx.switch_table[i].node_bitmap
    THEN <<ctx.switch_table[i].name>> \o LevelHostlist(ctx, level, inx, i + 1)
    ELSE LevelHostlist(ctx, level, inx, i + 1)

\* for (j = s_max_level; j >= 0; j--): one address component per level
RECURSIVE AddrLevels(_, _, _)
AddrLevels(ctx, inx, j) ==
    IF j < 0 THEN << >>
    ELSE <<LevelHostlist(ctx, j, inx, 0)>> \o AddrLevels(ctx, inx, j - 1)

MaxLevel(ctx) ==
    SetMax({0} \cup {ctx.switch_table[i].level : i \in 0 .. (ctx.switch_count - 1)})

NoAddr == [set |-> FALSE, addr |-> << >>, pattern |-> << >>]

\* the addresser that never fails on an unknown node
get_node_addr_no_check(ctx, node_name) ==
    IF ctx.switch_count = 0
    THEN [rc |-> SLURM_SUCCESS,
          out |-> [set |-> TRUE, addr |-> <<node_name>>, pattern |-> <<"node">>]]
    ELSE [rc |-> SLURM_SUCCESS,
          out |-> [set |-> TRUE,
                   addr |-> AddrLevels(ctx, find_node_record(node_name), MaxLevel(ctx))
                                \o <<node_name>>,
                   pattern |-> [k \in 1 .. (MaxLevel(ctx) + 1) |-> "switch"] \o <<"node">>]]

\* topology_p_get_node_addr(node_name, paddr, ppattern, tctx): the address is
\* the sequence of its dot-separated components, each level's component the
\* hostlist of that level's switch names, the last one the node name
topology_p_get_node_addr(ctx, node_name) ==
    IF ctx.switch_count = 0
    THEN [rc |-> SLURM_SUCCESS,
          out |-> [set |-> TRUE, addr |-> <<node_name>>, pattern |-> <<"node">>]]
    ELSE IF find_node_record(node_name) = -1
    THEN [rc |-> SLURM_ERROR, out |-> NoAddr]
    ELSE [rc |-> SLURM_SUCCESS,
          out |-> [set |-> TRUE,
                   addr |-> AddrLevels(ctx, find_node_record(node_name), MaxLevel(ctx))
                                \o <<node_name>>,
                   pattern |-> [k \in 1 .. (MaxLevel(ctx) + 1) |-> "switch"] \o <<"node">>]]

-----------------------------------------------------------------------------
(* topology_p_split_hostlist and _subtree_split_hostlist *)

\* ceil(log2(x) / log2(tree_width)): the smallest k with tree_width^k >= x
\* (the double arithmetic gives exactly this for every x and tree_width the
\* model reaches)
RECURSIVE CeilLog(_, _, _, _)
CeilLog(x, tree_width, k, pow) ==
    IF pow >= x THEN k ELSE CeilLog(x, tree_width, k + 1, pow * tree_width)

\* switch_nodes_tree_depth for a leaf holding switch_nodes_cnt destinations
switch_nodes_tree_depth(switch_nodes_cnt, tree_width) ==
    CeilLog(switch_nodes_cnt * (tree_width - 1) + 1, tree_width, 0, 1)

\* the seed loop that keeps the last leaf's depth instead of the maximum
RECURSIVE SeedLoopLastDepth(_, _, _, _, _)
SeedLoopLastDepth(ctx, nodes_bitmap, tree_width, j, st) ==
    IF j >= ctx.switch_count THEN st
    ELSE IF ctx.switch_table[j].level = 0
            /\ ctx.switch_table[j].node_bitmap \cap nodes_bitmap # {}
    THEN SeedLoopLastDepth(ctx, nodes_bitmap, tree_width, j + 1,
             [depth |-> switch_nodes_tree_depth(
                            Cardinality(ctx.switch_table[j].node_bitmap \cap nodes_bitmap),
                            tree_width),
              switch_bitmap |-> st.switch_bitmap \cup {j}])
    ELSE SeedLoopLastDepth(ctx, nodes_bitmap, tree_width, j + 1, st)

\* for (j = 0; j < switch_count; j++): mark the leaves that overlap the
\* destinations and take the largest leaf depth
RECURSIVE SeedLoop(_, _, _, _, _)
SeedLoop(ctx, nodes_bitmap, tree_width, j, st) ==
    IF j >= ctx.switch_count THEN st
    ELSE IF ctx.switch_table[j].level = 0
            /\ ctx.switch_table[j].node_bitmap \cap nodes_bitmap # {}
    THEN SeedLoop(ctx, nodes_bitmap, tree_width, j + 1,
             [depth |-> Max(st.depth,
                            switch_nodes_tree_depth(
                                Cardinality(ctx.switch_table[j].node_bitmap
                                                \cap nodes_bitmap),
                                tree_width)),
              switch_bitmap |-> st.switch_bitmap \cup {j}])
    ELSE SeedLoop(ctx, nodes_bitmap, tree_width, j + 1, st)

\* the merge body that counts the marked direct children of j only
MergeAtChildrenOnly(ctx, st, j, i) ==
    IF ctx.switch_table[j].level # i THEN st
    ELSE
    LET desc == ctx.switch_table[j].switch_index
        marked == {k \in 1 .. Len(desc) : desc[k] \in st.switch_bitmap}
        child_cnt == Cardinality(marked)
    IN IF child_cnt > 1
       THEN [switch_bitmap |->
                 (st.switch_bitmap \ {desc[k] : k \in marked}) \cup {j},
             switch_count |-> st.switch_count - (child_cnt - 1),
             upper_switch_level |-> Max(st.upper_switch_level, i),
             merges |-> st.merges \cup {j}]
       ELSE st

\* the body of the merge loop for switch j at level i: when two or more of
\* its descendants are marked, they are cleared and j is marked; merges
\* keeps the switches at which this happened
MergeAt(ctx, st, j, i) ==
    IF ctx.switch_table[j].level # i THEN st
    ELSE
    LET desc == ctx.switch_table[j].switch_desc_index
        marked == {k \in 1 .. Len(desc) : desc[k] \in st.switch_bitmap}
        child_cnt == Cardinality(marked)
    IN IF child_cnt > 1
       THEN [switch_bitmap |->
                 (st.switch_bitmap \ {desc[k] : k \in marked}) \cup {j},
             switch_count |-> st.switch_count - (child_cnt - 1),
             upper_switch_level |-> Max(st.upper_switch_level, i),
             merges |-> st.merges \cup {j}]
       ELSE st

\* for (j = 0; j < ctx->switch_count; j++) with its switch_count < 2 break
RECURSIVE MergeSwitches(_, _, _, _)
MergeSwitches(ctx, st, i, j) ==
    IF j >= ctx.switch_count \/ st.switch_count < 2 THEN st
    ELSE MergeSwitches(ctx, MergeAt(ctx, st, j, i), i, j + 1)

\* for (i = 1; i <= ctx->switch_levels; i++) with its switch_count < 2 break
RECURSIVE MergeLevels(_, _, _)
MergeLevels(ctx, st, i) ==
    IF i > ctx.switch_levels \/ st.switch_count < 2 THEN st
    ELSE MergeLevels(ctx, MergeSwitches(ctx, st, i, 0), i + 1)

\* the child loop that does not take the forwarded nodes out of nodes_bitmap
RECURSIVE ChildLoopKeepsNodes(_, _, _, _, _)
ChildLoopKeepsNodes(ctx, parent, msg_count, i, st) ==
    IF i > Len(ctx.switch_table[parent].switch_index) THEN st
    ELSE
    LET k == ctx.switch_table[parent].switch_index[i]
        fwd_bitmap == ctx.switch_table[k].node_bitmap \cap st.nodes_bitmap
    IN IF fwd_bitmap = {}
       THEN ChildLoopKeepsNodes(ctx, parent, msg_count, i + 1, st)
       ELSE IF st.lst_count + Cardinality(fwd_bitmap) = msg_count
       THEN [st EXCEPT
               !.sp_hl = Append(@, bitmap2hostlist(fwd_bitmap)),
               !.src = Append(@, [sw |-> parent, child |-> i]),
               !.lst_count = @ + Cardinality(fwd_bitmap)]
       ELSE ChildLoopKeepsNodes(ctx, parent, msg_count, i + 1,
                [st EXCEPT
                   !.sp_hl = Append(@, bitmap2hostlist(fwd_bitmap)),
                   !.src = Append(@, [sw |-> parent, child |-> i]),
                   !.lst_count = @ + Cardinality(fwd_bitmap)])

\* the child loop that walks the children from the last to the first
RECURSIVE ChildLoopBackwards(_, _, _, _, _)
ChildLoopBackwards(ctx, parent, msg_count, i, st) ==
    IF i > Len(ctx.switch_table[parent].switch_index) THEN st
    ELSE
    LET pos == Len(ctx.switch_table[parent].switch_index) + 1 - i
        k == ctx.switch_table[parent].switch_index[pos]
        fwd_bitmap == ctx.switch_table[k].node_bitmap \cap st.nodes_bitmap
    IN IF fwd_bitmap = {}
       THEN ChildLoopBackwards(ctx, parent, msg_count, i + 1, st)
       ELSE IF st.lst_count + Cardinality(fwd_bitmap) = msg_count
       THEN [st EXCEPT
               !.sp_hl = Append(@, bitmap2hostlist(fwd_bitmap)),
               !.src = Append(@, [sw |-> parent, child |-> pos]),
               !.nodes_bitmap = @ \ fwd_bitmap,
               !.lst_count = @ + Cardinality(fwd_bitmap)]
       ELSE ChildLoopBackwards(ctx, parent, msg_count, i + 1,
                [st EXCEPT
                   !.sp_hl = Append(@, bitmap2hostlist(fwd_bitmap)),
                   !.src = Append(@, [sw |-> parent, child |-> pos]),
                   !.nodes_bitmap = @ \ fwd_bitmap,
                   !.lst_count = @ + Cardinality(fwd_bitmap)])

\* for (i = 0; i < num_switches; i++) of _subtree_split_hostlist: child i
\* (1-based position in switch_index) forwards its share of nodes_bitmap
\* as one sub-list; src records which switch and child produced it
RECURSIVE ChildLoop(_, _, _, _, _)
ChildLoop(ctx, parent, msg_count, i, st) ==
    IF i > Len(ctx.switch_table[parent].switch_index) THEN st
    ELSE
    LET k == ctx.switch_table[parent].switch_index[i]
        fwd_bitmap == ctx.switch_table[k].node_bitmap \cap st.nodes_bitmap
    IN IF fwd_bitmap = {}
       THEN ChildLoop(ctx, parent, msg_count, i + 1, st)
       ELSE IF st.lst_count + Cardinality(fwd_bitmap) = msg_count
       THEN [st EXCEPT
               !.sp_hl = Append(@, bitmap2hostlist(fwd_bitmap)),
               !.src = Append(@, [sw |-> parent, child |-> i]),
               !.nodes_bitmap = @ \ fwd_bitmap,
               !.lst_count = @ + Cardinality(fwd_bitmap)]
       ELSE ChildLoop(ctx, parent, msg_count, i + 1,
                [st EXCEPT
                   !.sp_hl = Append(@, bitmap2hostlist(fwd_bitmap)),
                   !.src = Append(@, [sw |-> parent, child |-> i]),
                   !.nodes_bitmap = @ \ fwd_bitmap,
                   !.lst_count = @ + Cardinality(fwd_bitmap)])

\* the subtree split that leaves *msg_count as it was
subtree_split_keeps_count(ctx, parent, rs) ==
    LET done == ChildLoop(ctx, parent, rs.msg_count, 1,
                          [sp_hl |-> rs.sp_hl, src |-> rs.src,
                           nodes_bitmap |-> rs.nodes_bitmap, lst_count |-> 0])
    IN [rs EXCEPT !.sp_hl = done.sp_hl, !.src = done.src,
                  !.nodes_bitmap = done.nodes_bitmap]

\* _subtree_split_hostlist(nodes_bitmap, parent, &msg_count, sp_hl, count, ctx)
\* on the running state rs; *count is Len(rs.sp_hl)
subtree_split_hostlist(ctx, parent, rs) ==
    LET done == ChildLoop(ctx, parent, rs.msg_count, 1,
                          [sp_hl |-> rs.sp_hl, src |-> rs.src,
                           nodes_bitmap |-> rs.nodes_bitmap, lst_count |-> 0])
    IN [rs EXCEPT !.sp_hl = done.sp_hl, !.src = done.src,
                  !.nodes_bitmap = done.nodes_bitmap,
                  !.msg_count = @ - done.lst_count]

\* whether msg_count is the number of bits set in nodes_bitmap
InStep(rs) == rs.msg_count = Cardinality(rs.nodes_bitmap)

\* for (j = s_first; j <= s_last; j++): xassert(msg_count), then split the
\* subtree of each marked switch; in_step says whether msg_count and
\* nodes_bitmap agreed after every call so far
RECURSIVE SwitchLoop(_, _, _, _, _)
SwitchLoop(ctx, switch_bitmap, j, s_last, rs) ==
    IF j > s_last THEN rs
    ELSE
    IF j \notin switch_bitmap
    THEN SwitchLoop(ctx, switch_bitmap, j + 1, s_last,
                    [rs EXCEPT !.xassert_loop = @ /\ rs.msg_count # 0])
    ELSE LET after == subtree_split_hostlist(ctx, j,
                          [rs EXCEPT !.xassert_loop = @ /\ rs.msg_count # 0])
         IN SwitchLoop(ctx, switch_bitmap, j + 1, s_last,
                       [after EXCEPT !.in_step = @ /\ InStep(after)])

\* if (msg_count): one singleton sub-list per node left in nodes_bitmap
Orphans(rs) ==
    IF rs.msg_count = 0 THEN rs
    ELSE LET left == BitsAscending(rs.nodes_bitmap)
         IN [rs EXCEPT
               !.sp_hl = @ \o [k \in 1 .. Len(left) |-> <<NodeName(left[k])>>],
               !.src = @ \o [k \in 1 .. Len(left) |-> [sw |-> -1, child |-> 0]]]

\* lines 582-620 once the switch set is final
SplitMarked(ctx, hl, nodes_bitmap, merged, depth) ==
    LET s_first == IF merged.switch_bitmap = {} THEN -1 ELSE SetMin(merged.switch_bitmap)
        s_last == IF merged.switch_bitmap = {} THEN -2 ELSE SetMax(merged.switch_bitmap)
    IN IF merged.switch_count = 1 /\ ctx.switch_table[s_first].level = 0
          /\ nodes_bitmap \subseteq ctx.switch_table[s_first].node_bitmap
       THEN [path |-> "treewidth", depth |-> 0, sp_hl |-> << >>, src |-> << >>,
             switch_bitmap |-> merged.switch_bitmap, merges |-> merged.merges,
             left |-> {}, msg_count |-> 0, in_step |-> TRUE,
             xassert_loop |-> TRUE, xassert_end |-> TRUE]
       ELSE LET split == SwitchLoop(ctx, merged.switch_bitmap, s_first, s_last,
                             [sp_hl |-> << >>, src |-> << >>,
                              nodes_bitmap |-> nodes_bitmap,
                              msg_count |-> Len(hl), xassert_loop |-> TRUE,
                              in_step |-> Len(hl) = Cardinality(nodes_bitmap)])
                out == Orphans(split)
            IN [path |-> "topo", depth |-> depth, sp_hl |-> out.sp_hl,
                src |-> out.src, switch_bitmap |-> merged.switch_bitmap,
                merges |-> merged.merges,
                left |-> split.nodes_bitmap, msg_count |-> split.msg_count,
                in_step |-> split.in_step,
                xassert_loop |-> split.xassert_loop,
                xassert_end |-> InStep(split)]

\* lines 510-559: the merge of the seeded switch set and the final depth
MergeAndSplit(ctx, hl, nodes_bitmap, seed) ==
    LET merged == MergeLevels(ctx,
                      [switch_bitmap |-> seed.switch_bitmap,
                       switch_count |-> Cardinality(seed.switch_bitmap),
                       upper_switch_level |-> 0, merges |-> {}], 1)
    IN SplitMarked(ctx, hl, nodes_bitmap, merged,
                   seed.depth + merged.upper_switch_level)

\* topology_p_split_hostlist(hl, sp_hl, count, tree_width, tctx) on a built
\* forest (lines 485-620): hl is a hostlist of known nodes; the result says
\* which path was taken ("treewidth": handed to
\* common_topo_split_hostlist_treewidth, whose outputs are not modelled),
\* the depth returned, the sub-lists in output order, the two xasserts, and
\* nodes_bitmap and msg_count as the switch loop left them
topology_p_split_hostlist(ctx, hl, tree_width) ==
    MergeAndSplit(ctx, hl, HostSet(hl),
                  SeedLoop(ctx, HostSet(hl), tree_width, 0,
                           [depth |-> 0, switch_bitmap |-> {}]))

-----------------------------------------------------------------------------
(* Queries against a built forest *)

TreeWidths == 2 .. MaxTreeWidth

\* node names the directory does not know
UnknownNames == {<<"n", NumNodes>>, <<"x", 0>>}

\* the forests the validator builds from the layouts, and the empty forest
QueryForests ==
    {EmptyCtx} \cup
    UNION {{switch_record_validate(layout, place) : place \in Placements(layout)} :
              layout \in {Layout2, Layout5, LayoutTwoTrees, LayoutTwoSpines}}

\* a thread calls topology_p_split_hostlist with topology-aware routing on
SplitHostlist(D, tree_width) ==
    /\ call = Idle
    /\ CallsQuiet
    /\ switch_count > 0
    /\ \E r \in {topology_p_split_hostlist(CurCtx, bitmap2hostlist(D), tree_width)} :
          call' = [op |-> "split", D |-> D, tree_width |-> tree_width,
                   path |-> r.path, depth |-> r.depth, sp_hl |-> r.sp_hl,
                   src |-> r.src, switch_bitmap |-> r.switch_bitmap,
                   merges |-> r.merges, left |-> r.left,
                   msg_count |-> r.msg_count, in_step |-> r.in_step,
                   xassert_loop |-> r.xassert_loop, xassert_end |-> r.xassert_end]
    /\ UNCHANGED <<fvars, cvars>>

\* the same call when common_topo_route_tree() is false (lines 460-463)
SplitHostlistFlat(D, tree_width) ==
    /\ call = Idle
    /\ CallsQuiet
    /\ call' = [op |-> "split", D |-> D, tree_width |-> tree_width,
                path |-> "treewidth", depth |-> 0, sp_hl |-> << >>,
                src |-> << >>, switch_bitmap |-> {}, merges |-> {},
                left |-> {}, msg_count |-> 0, in_step |-> TRUE,
                xassert_loop |-> TRUE, xassert_end |-> TRUE]
    /\ UNCHANGED <<fvars, cvars>>

\* the controller finds switch_count == 0 under init_lock (lines 466-468)
SplitHostlistNoForest ==
    /\ call = Idle
    /\ CallsQuiet
    /\ switch_count = 0
    /\ in_ctld
    /\ aborted' = TRUE
    /\ UNCHANGED <<fvars, call, pc, init_lock, builds, in_ctld, conf_nodes,
                   node_record_count>>

WholeTopo(node_mask) ==
    /\ call = Idle
    /\ CallsQuiet
    /\ call' = [op |-> "whole_topo", node_mask |-> node_mask,
                result |-> topology_p_whole_topo(CurCtx, node_mask)]
    /\ UNCHANGED <<fvars, cvars>>

GetNodeAddr(node_name) ==
    /\ call = Idle
    /\ CallsQuiet
    /\ \E r \in {topology_p_get_node_addr(CurCtx, node_name)} :
          call' = [op |-> "get_node_addr", node_name |-> node_name,
                   rc |-> r.rc, out |-> r.out]
    /\ UNCHANGED <<fvars, cvars>>

InitQuery ==
    /\ \E ctx \in QueryForests : SetForest(ctx)
    /\ call = Idle
    /\ QuietThreads

NextQuery ==
    \/ \E D \in SUBSET Nodes, tree_width \in TreeWidths : SplitHostlist(D, tree_width)
    \/ \E D \in SUBSET Nodes, tree_width \in TreeWidths : SplitHostlistFlat(D, tree_width)
    \/ SplitHostlistNoForest
    \/ \E node_mask \in SUBSET Nodes : WholeTopo(node_mask)
    \/ \E n \in Nodes : GetNodeAddr(NodeName(n))
    \/ \E name \in UnknownNames : GetNodeAddr(name)
    \/ Return

SpecQuery == InitQuery /\ [][NextQuery]_vars

-----------------------------------------------------------------------------
(* Properties of the mutator *)

Switches == 0 .. (switch_count - 1)

Leaves(ctx) ==
    {i \in 0 .. (ctx.switch_count - 1) : ctx.switch_table[i].level = 0}

LeavesHolding(ctx, n) == {i \in Leaves(ctx) : n \in ctx.switch_table[i].node_bitmap}

ChildrenUnion(ctx, s) ==
    UNION {ctx.switch_table[ctx.switch_table[s].switch_index[i]].node_bitmap :
               i \in 1 .. Len(ctx.switch_table[s].switch_index)}

MutatorDone == call.op = "add_rm" /\ call.rc = SLURM_SUCCESS

\* C2: in every state the mutator reaches from a validated forest, every
\* non-leaf switch's node_bitmap is the union of its children's node_bitmaps
C2_InteriorIsUnionOfChildren ==
    \A s \in Switches :
        switch_table[s].level # 0 =>
            switch_table[s].node_bitmap = ChildrenUnion(CurCtx, s)

\* C2 witness: a successful move of a node to an existing leaf that comes
\* earlier in the table than the leaf it leaves, both under a common switch
C2_Witness_MoveToEarlierLeaf ==
    /\ MutatorDone /\ call.adding /\ call.existing
    /\ \E old \in LeavesHolding(call.before, call.node) :
          /\ old > call.add_inx
          /\ \E a \in Switches :
                {old, call.add_inx} \subseteq
                    {switch_table[a].switch_desc_index[k] :
                         k \in 1 .. Len(switch_table[a].switch_desc_index)}

\* C3: after a successful call with a path the node is in the resolved leaf
\* and in no other leaf; after a successful call with no path it is in no
\* leaf; no other node's bit changes in any switch; and in every state each
\* node is in at most one leaf
C3_NodeInTargetLeafOnly ==
    /\ \A n \in Nodes : Cardinality(LeavesHolding(CurCtx, n)) <= 1
    /\ MutatorDone =>
          /\ call.adding =>
                /\ call.add_inx \in Leaves(CurCtx)
                /\ LeavesHolding(CurCtx, call.node) = {call.add_inx}
          /\ ~call.adding => LeavesHolding(CurCtx, call.node) = {}
          /\ \A s \in Switches :
                switch_table[s].node_bitmap \ {call.node} =
                    IF s < call.before.switch_count
                    THEN call.before.switch_table[s].node_bitmap \ {call.node}
                    ELSE {}

\* C3 witness: a node moved to a later leaf of the table while another node
\* stays attached, and a pure removal is covered by C4's witness
C3_Witness_MoveToLaterLeaf ==
    /\ MutatorDone /\ call.adding
    /\ \E old \in LeavesHolding(call.before, call.node) : old < call.add_inx
    /\ \E m \in Nodes \ {call.node} : LeavesHolding(CurCtx, m) # {}

\* C4 as stated: add(X, path of existing switches to leaf L) followed by
\* remove(X) gives back the starting forest, whatever X was attached to
C4_Original_AddThenRemoveRestores ==
    (MutatorDone /\ (call.undoes /\ call.existing)) => CurCtx = call.start

\* C4 amended: when X is attached to no leaf of the starting forest and the
\* path names existing switches only, add(X, path to L) followed by remove(X)
\* gives back the starting forest: switch_count and every switch entry
C4_AddThenRemoveRestores ==
    (MutatorDone /\ (call.undoes /\ call.existing) /\ LeavesHolding(call.start, call.node) = {})
        => CurCtx = call.start

\* C4 witness: a remove that undoes the add of a node that was unattached in
\* a forest where the add reached a leaf two levels below the root
C4_Witness_RemoveAfterAdd ==
    /\ MutatorDone /\ (call.undoes /\ call.existing)
    /\ LeavesHolding(call.start, call.node) = {}
    /\ \E l \in LeavesHolding(call.before, call.node) :
          /\ call.before.switch_table[l].parent # SWITCH_NO_PARENT
          /\ call.before.switch_table[call.before.switch_table[l].parent].parent
                 # SWITCH_NO_PARENT

\* C5 as stated: a call that returns an error leaves the forest as it was
C5_ErrorLeavesForestUnchanged ==
    (call.op = "add_rm" /\ call.rc = SLURM_ERROR) => CurCtx = call.before

-----------------------------------------------------------------------------
(* Properties of the queries *)

TopoSplit == call.op = "split" /\ call.path = "topo"

\* every node of D is attached to some leaf of the forest
FullyContained(D) == \A n \in D : LeavesHolding(CurCtx, n) # {}

\* the child switch that produced sub-list i of a subtree split
SrcChild(i) == switch_table[call.src[i].sw].switch_index[call.src[i].child]

\* C1: on the topology-aware path the sub-lists name known nodes only, no
\* node twice, are pairwise disjoint, and their union is exactly D
C1_SublistsPartitionD ==
    TopoSplit =>
        /\ \A i \in 1 .. Len(call.sp_hl) :
              /\ HostSet(call.sp_hl[i]) \subseteq Nodes
              /\ Cardinality(HostSet(call.sp_hl[i])) = Len(call.sp_hl[i])
        /\ \A i, j \in 1 .. Len(call.sp_hl) :
              i # j => HostSet(call.sp_hl[i]) \cap HostSet(call.sp_hl[j]) = {}
        /\ UNION {HostSet(call.sp_hl[i]) : i \in 1 .. Len(call.sp_hl)} = call.D

\* C1 witness: a split that emits a sub-list of two nodes, another subtree
\* sub-list and an orphan singleton
C1_Witness_SubtreesAndOrphan ==
    /\ TopoSplit
    /\ \E i, j, k \in 1 .. Len(call.sp_hl) :
          /\ i # j
          /\ call.src[i].sw >= 0 /\ Len(call.sp_hl[i]) >= 2
          /\ call.src[j].sw >= 0
          /\ call.src[k].sw = -1

\* C7: whole_topo leaves the input enlarged by exactly the node_bitmaps of
\* the leaves that overlap the input: it holds every input bit and the whole
\* of each overlapping leaf, no node of a leaf that does not overlap, and
\* nothing else
C7_WholeTopoLeafClosure ==
    call.op = "whole_topo" =>
        /\ call.node_mask \subseteq call.result
        /\ \A l \in Leaves(CurCtx) :
              IF switch_table[l].node_bitmap \cap call.node_mask # {}
              THEN switch_table[l].node_bitmap \subseteq call.result
              ELSE switch_table[l].node_bitmap \cap call.result = {}
        /\ call.result \subseteq
              call.node_mask \cup UNION {switch_table[l].node_bitmap : l \in Leaves(CurCtx)}

\* C7 witness: the input overlaps a leaf that holds more than the input, and
\* a sibling leaf under the same switch holds nodes and is not pulled in
C7_Witness_OneLeafEnlarged ==
    /\ call.op = "whole_topo"
    /\ call.result # call.node_mask
    /\ \E l1, l2 \in Leaves(CurCtx) :
          /\ l1 # l2
          /\ switch_table[l1].parent = switch_table[l2].parent
          /\ switch_table[l1].parent # SWITCH_NO_PARENT
          /\ switch_table[l1].node_bitmap \cap call.node_mask # {}
          /\ switch_table[l2].node_bitmap # {}
          /\ switch_table[l2].node_bitmap \cap call.result = {}

\* C8 as stated: on every forest, the empty one included, a name the node
\* directory cannot resolve gives an error and no address
C8_Original_UnknownNodeFails ==
    (call.op = "get_node_addr" /\ find_node_record(call.node_name) = -1) =>
        (call.rc = SLURM_ERROR /\ ~call.out.set)

\* C8 amended: on a non-empty forest an unresolvable name gives an error and
\* no address; on the empty forest every name, resolvable or not, gives
\* success with address = name and pattern = "node"
C8_UnknownNodeFailsOnBuiltForest ==
    call.op = "get_node_addr" =>
        /\ (switch_count > 0 /\ find_node_record(call.node_name) = -1) =>
              (call.rc = SLURM_ERROR /\ ~call.out.set)
        /\ switch_count = 0 =>
              /\ call.rc = SLURM_SUCCESS
              /\ call.out = [set |-> TRUE, addr |-> <<call.node_name>>,
                             pattern |-> <<"node">>]

\* C8 witness: an unresolvable name refused on a forest of three levels
C8_Witness_UnknownOnBuiltForest ==
    /\ call.op = "get_node_addr"
    /\ find_node_record(call.node_name) = -1
    /\ switch_levels = 2
    /\ call.rc = SLURM_ERROR

\* C9: subtree sub-lists come first, ordered by the table index of the marked
\* switch that produced them and then by the position of the child in that
\* switch's child list; each holds nodes of that child only; every orphan
\* singleton comes after them
C9_SublistOrder ==
    TopoSplit =>
        /\ Len(call.src) = Len(call.sp_hl)
        /\ \A i \in 1 .. Len(call.src) :
              IF call.src[i].sw = -1 THEN Len(call.sp_hl[i]) = 1
              ELSE /\ call.src[i].sw \in call.switch_bitmap
                   /\ HostSet(call.sp_hl[i]) \subseteq switch_table[SrcChild(i)].node_bitmap
        /\ \A i, j \in 1 .. Len(call.src) :
              i < j =>
                 /\ call.src[i].sw = -1 => call.src[j].sw = -1
                 /\ (call.src[i].sw >= 0 /\ call.src[j].sw >= 0) =>
                       \/ call.src[i].sw < call.src[j].sw
                       \/ /\ call.src[i].sw = call.src[j].sw
                          /\ call.src[i].child < call.src[j].child

\* C9 witness: two marked switches each produce two sub-lists, the second
\* one's children being declared against the table order
C9_Witness_TwoSubtrees ==
    /\ TopoSplit
    /\ Len(call.src) = 4
    /\ call.src[1].sw = call.src[2].sw
    /\ call.src[3].sw = call.src[4].sw
    /\ call.src[1].sw >= 0 /\ call.src[3].sw > call.src[1].sw
    /\ SrcChild(3) > SrcChild(4)

\* C10 as stated: with D fully contained in the topology the depth is at
\* least the smallest k with tw^k >= |D|*(tw-1) + 1
C10_Original_DepthBound ==
    (TopoSplit /\ FullyContained(call.D)) =>
        call.depth >= switch_nodes_tree_depth(Cardinality(call.D), call.tree_width)

\* C10 amended: with D fully contained the depth is at least the smallest k
\* with tw^k >= m*(tw-1) + 1, m being the number of nodes of D on any one leaf
C10_DepthBoundPerLeaf ==
    (TopoSplit /\ FullyContained(call.D)) =>
        \A l \in Leaves(CurCtx) :
            switch_table[l].node_bitmap \cap call.D # {} =>
                call.depth >= switch_nodes_tree_depth(
                                  Cardinality(switch_table[l].node_bitmap \cap call.D),
                                  call.tree_width)

\* C10 witness: D fully contained, three of its nodes on one leaf listed
\* before another leaf that holds one, merged under one switch
C10_Witness_UnevenLeaves ==
    /\ TopoSplit /\ FullyContained(call.D)
    /\ \E l1, l2 \in Leaves(CurCtx) :
          /\ l1 < l2
          /\ Cardinality(switch_table[l1].node_bitmap \cap call.D) = 3
          /\ Cardinality(switch_table[l2].node_bitmap \cap call.D) = 1
    /\ \E s \in call.switch_bitmap : switch_table[s].level > 0

\* the leaves that hold a node of D
MarkedLeaves(D) == {l \in Leaves(CurCtx) : switch_table[l].node_bitmap \cap D # {}}

\* the least k with tw^k >= cnt*(tw-1) + 1; k = cnt is always enough
LeafDepth(cnt, tw) == SetMin({k \in 0 .. cnt : tw ^ k >= cnt * (tw - 1) + 1})

\* the largest leaf depth over the leaves that hold a node of D, 0 if none
Depth0(D, tw) ==
    SetMax({0} \cup {LeafDepth(Cardinality(switch_table[l].node_bitmap \cap D), tw) :
                         l \in MarkedLeaves(D)})

\* the highest level of a switch at which a merge took place, 0 if none
UpperLevel == SetMax({0} \cup {switch_table[j].level : j \in call.merges})

\* the switches that have every switch of S in their subtree (a switch is in
\* its own subtree)
CommonAncestors(S) ==
    {s \in Switches : \A l \in S : s \in Ancestors(switch_table, l)}

\* the lowest of the common ancestors of S
LowestCommonAncestor(S) ==
    CHOOSE s \in CommonAncestors(S) :
        \A t \in CommonAncestors(S) : switch_table[s].level <= switch_table[t].level

\* C11: on the topology-aware path the depth returned is depth0 + upper:
\* depth0 the largest ceil(log_tw(|L /\ D|*(tw-1)+1)) over the leaves L that
\* overlap D (0 if none), upper the highest level of a switch at which two
\* or more marked descendants were merged (0 if none); when the marked
\* leaves lie in one tree, upper is the level of their lowest common ancestor
C11_DepthIsLeafDepthPlusUpper ==
    TopoSplit =>
        /\ call.depth = Depth0(call.D, call.tree_width) + UpperLevel
        /\ \A j \in call.merges :
              Cardinality({l \in MarkedLeaves(call.D) :
                              j \in Ancestors(switch_table, l)}) >= 2
        /\ (MarkedLeaves(call.D) # {} /\ CommonAncestors(MarkedLeaves(call.D)) # {}) =>
              UpperLevel =
                  switch_table[LowestCommonAncestor(MarkedLeaves(call.D))].level

\* C11 witness: three marked leaves of one tree merged in two steps, at a
\* level-1 switch and then at their common ancestor on level 2, with two
\* nodes of D on one leaf
C11_Witness_MergedAtTwoLevels ==
    /\ TopoSplit
    /\ Cardinality(MarkedLeaves(call.D)) = 3
    /\ CommonAncestors(MarkedLeaves(call.D)) # {}
    /\ {switch_table[j].level : j \in call.merges} = {1, 2}
    /\ Depth0(call.D, call.tree_width) >= 2
    /\ call.depth = Depth0(call.D, call.tree_width) + 2

\* the positions of the sub-lists emitted by the orphan loop
OrphanLists == {i \in 1 .. Len(call.sp_hl) : call.src[i].sw = -1}

\* the nodes of D that are in the node_bitmap of no switch left marked
Unreachable ==
    {n \in call.D : \A s \in call.switch_bitmap : n \notin switch_table[s].node_bitmap}

\* C12: on the topology-aware path the nodes left in nodes_bitmap after the
\* subtree split of every marked switch are exactly the nodes of D in the
\* node_bitmap of no marked switch; they are emitted last, as singletons, one
\* per node in ascending node index; no node of a marked switch, a marked
\* leaf included, is emitted as an orphan singleton
C12_OrphansAreUnreachable ==
    TopoSplit =>
        /\ call.left = Unreachable
        /\ \A i \in OrphanLists :
              \A s \in call.switch_bitmap :
                  HostSet(call.sp_hl[i]) \cap switch_table[s].node_bitmap = {}
        /\ LET first == Len(call.sp_hl) - Cardinality(OrphanLists)
               asc == BitsAscending(call.left)
           IN /\ OrphanLists = (first + 1) .. Len(call.sp_hl)
              /\ Len(asc) = Cardinality(OrphanLists)
              /\ \A k \in 1 .. Len(asc) :
                    call.sp_hl[first + k] = <<NodeName(asc[k])>>

\* C13: for a forest that meets the invariants and a duplicate-free D of
\* known nodes neither xassert of the router fails: msg_count is non-zero at
\* the start of every iteration from the first to the last marked switch,
\* and after the loop, as after every subtree split, msg_count is the number
\* of bits set in nodes_bitmap
C13_XassertsHold ==
    TopoSplit =>
        /\ call.xassert_loop
        /\ call.xassert_end
        /\ call.in_step
        /\ call.msg_count = Cardinality(call.left)

\* C13 witness: the switch loop passes an unmarked index between two marked
\* switches, a subtree split has emitted a sub-list, and nodes are left for
\* the orphan loop
C13_Witness_GapAndLeftover ==
    /\ TopoSplit
    /\ \E j \in Switches :
          /\ j \notin call.switch_bitmap
          /\ \E a, b \in call.switch_bitmap : a < j /\ j < b
    /\ \E i \in 1 .. Len(call.sp_hl) : call.src[i].sw >= 0
    /\ call.msg_count > 0
    /\ call.xassert_loop /\ call.xassert_end

-----------------------------------------------------------------------------
(* The one-shot build at the head of topology_p_split_hostlist (lines 460-483) *)

Threads == 1 .. NumThreads

\* positions of a thread that holds init_lock and runs the build
Building == {"init_node_conf", "build_all_nodeline_info", "rehash_node",
             "build_config"}

\* the forest the configuration files describe
ConfiguredForest == switch_record_validate(Layout2, SplitPlacement(Layout2))

\* a mutex that never makes a caller wait
MutexNeverHeld(t) == TRUE

\* slurm_mutex_lock(&init_lock) returns once no thread holds the mutex
MutexFree(t) == init_lock = 0

\* a thread enters topology_p_split_hostlist with topology-aware routing on
SplitEnter(t) ==
    /\ ~aborted
    /\ call = Idle
    /\ pc[t] = "idle"
    /\ builds < MaxBuilds
    /\ pc' = [pc EXCEPT ![t] = "lock"]
    /\ UNCHANGED <<fvars, call, init_lock, builds, in_ctld, conf_nodes,
                   node_record_count, aborted>>

\* line 465
SplitLock(t) ==
    /\ ~aborted
    /\ pc[t] = "lock"
    /\ MutexFree(t)
    /\ init_lock' = t
    /\ pc' = [pc EXCEPT ![t] = "check"]
    /\ UNCHANGED <<fvars, call, builds, in_ctld, conf_nodes,
                   node_record_count, aborted>>

\* lines 466-468: the forest is there, or the controller aborts, or the
\* build starts
SplitCheck(t) ==
    /\ ~aborted
    /\ pc[t] = "check"
    /\ \/ /\ switch_count # 0
          /\ pc' = [pc EXCEPT ![t] = "unlock"]
          /\ UNCHANGED aborted
       \/ /\ switch_count = 0
          /\ in_ctld
          /\ aborted' = TRUE
          /\ UNCHANGED pc
       \/ /\ switch_count = 0
          /\ ~in_ctld
          /\ pc' = [pc EXCEPT ![t] = "init_node_conf"]
          /\ UNCHANGED aborted
    /\ UNCHANGED <<fvars, call, init_lock, builds, in_ctld, conf_nodes,
                   node_record_count>>

\* line 470: init_node_conf() empties the node table
InitNodeConf(t) ==
    /\ ~aborted
    /\ pc[t] = "init_node_conf"
    /\ node_record_count' = 0
    /\ pc' = [pc EXCEPT ![t] = "build_all_nodeline_info"]
    /\ UNCHANGED <<fvars, call, init_lock, builds, in_ctld, conf_nodes, aborted>>

\* line 471: build_all_nodeline_info() reads the configured nodes
BuildAllNodelineInfo(t) ==
    /\ ~aborted
    /\ pc[t] = "build_all_nodeline_info"
    /\ node_record_count' = conf_nodes
    /\ pc' = [pc EXCEPT ![t] = "rehash_node"]
    /\ UNCHANGED <<fvars, call, init_lock, builds, in_ctld, conf_nodes, aborted>>

\* line 472
RehashNode(t) ==
    /\ ~aborted
    /\ pc[t] = "rehash_node"
    /\ pc' = [pc EXCEPT ![t] = "build_config"]
    /\ UNCHANGED <<fvars, call, init_lock, builds, in_ctld, conf_nodes,
                   node_record_count, aborted>>

\* lines 474-476 with topology_p_build_config (lines 220-225): with no nodes
\* the build succeeds and leaves the forest empty; otherwise the validator
\* builds the forest, or fails and the process ends in fatal()
BuildConfig(t) ==
    /\ ~aborted
    /\ pc[t] = "build_config"
    /\ \/ /\ node_record_count = 0
          /\ builds' = builds + 1
          /\ pc' = [pc EXCEPT ![t] = "unlock"]
          /\ UNCHANGED <<fvars, aborted>>
       \/ /\ node_record_count # 0
          /\ switch_table' = ConfiguredForest.switch_table
          /\ switch_count' = ConfiguredForest.switch_count
          /\ switch_levels' = ConfiguredForest.switch_levels
          /\ builds' = builds + 1
          /\ pc' = [pc EXCEPT ![t] = "unlock"]
          /\ UNCHANGED aborted
       \/ /\ node_record_count # 0
          /\ aborted' = TRUE
          /\ UNCHANGED <<fvars, builds, pc>>
    /\ UNCHANGED <<call, init_lock, in_ctld, conf_nodes, node_record_count>>

\* line 478
SplitUnlock(t) ==
    /\ ~aborted
    /\ pc[t] = "unlock"
    /\ init_lock' = 0
    /\ pc' = [pc EXCEPT ![t] = "route"]
    /\ UNCHANGED <<fvars, call, builds, in_ctld, conf_nodes,
                   node_record_count, aborted>>

\* lines 485-620: the thread reads switch_count and switch_table, routes and
\* returns
SplitRoute(t) ==
    /\ ~aborted
    /\ pc[t] = "route"
    /\ pc' = [pc EXCEPT ![t] = "idle"]
    /\ UNCHANGED <<fvars, call, init_lock, builds, in_ctld, conf_nodes,
                   node_record_count, aborted>>

\* a process at start: a controller holds the forest it built at startup (or,
\* against its contract, none); any other process has built none yet
InitBuild ==
    /\ in_ctld \in BOOLEAN
    /\ conf_nodes \in {0, NumNodes}
    /\ \E ctx \in {EmptyCtx} \cup
                  (IF in_ctld /\ conf_nodes # 0 THEN {ConfiguredForest} ELSE {}) :
           /\ SetForest(ctx)
           /\ node_record_count = IF ctx.switch_count # 0 THEN conf_nodes ELSE 0
    /\ call = Idle
    /\ pc = [t \in Threads |-> "idle"]
    /\ init_lock = 0
    /\ builds = 0
    /\ aborted = FALSE

NextBuild ==
    \E t \in Threads :
        \/ SplitEnter(t) \/ SplitLock(t) \/ SplitCheck(t) \/ InitNodeConf(t)
        \/ BuildAllNodelineInfo(t) \/ RehashNode(t) \/ BuildConfig(t)
        \/ SplitUnlock(t) \/ SplitRoute(t)

SpecBuild == InitBuild /\ [][NextBuild]_vars

\* C6: outside the controller, when the configuration gives a non-empty
\* forest: the build runs at most once, and exactly once before any caller
\* is past the lock; while a thread builds it holds init_lock and every
\* other thread is outside the call or waiting at the lock; a caller past
\* the lock sees switch_count > 0.  Inside the controller no build ever
\* runs, and with switch_count == 0 no caller gets past the check: the
\* process is in the fatal-abort state or no caller has reached the check
C6_BuildOnceUnderLock ==
    /\ (~in_ctld /\ conf_nodes # 0) =>
          /\ builds <= 1
          /\ \A t \in Threads :
                /\ pc[t] \in Building =>
                      /\ init_lock = t
                      /\ builds = 0
                      /\ \A u \in Threads \ {t} : pc[u] \in {"idle", "lock"}
                /\ pc[t] \in {"unlock", "route"} =>
                      /\ builds = 1
                      /\ switch_count > 0
                      /\ \A u \in Threads : pc[u] \notin Building
    /\ in_ctld =>
          /\ builds = 0
          /\ \A t \in Threads : pc[t] \notin Building
          /\ switch_count = 0 =>
                \A t \in Threads : pc[t] \notin {"unlock", "route"}
          /\ aborted => switch_count = 0

\* C6 witness: outside the controller, after the one build, the builder is
\* routing and the other caller, which waited at the lock, has passed the
\* check without building
C6_Witness_SecondCallerSkipsBuild ==
    /\ ~in_ctld /\ conf_nodes # 0 /\ builds = 1
    /\ \E t, u \in Threads :
          /\ t # u
          /\ pc[t] = "route"
          /\ pc[u] = "unlock"

====
